---- MODULE Spec2Model ----
(***************************************************************************)
(* Model of pyticketswitch.interface_objects.base.InterfaceObject: the     *)
(* identity resolution and crypto-block cache layer.                       *)
(*                                                                         *)
(* Strings are sequences of tokens; a token is a piece of text without an  *)
(* underscore, and "_" is a token of its own, so that the format strings   *)
(* '{0}_{1}' / '{0}_{1}_{2}' are concatenations and str.startswith is a    *)
(* prefix test.  Python's None is the empty sequence (falsy); it formats   *)
(* as the token "None".  Dictionaries are functions with a finite domain.  *)
(*                                                                         *)
(* Every method of the class is an operator from a "world" record (the     *)
(* fields of self, the external session, the remote responses still to be  *)
(* consumed and the events performed so far) to the world after the call;  *)
(* a raised exception is the field exc, and every step after it is         *)
(* skipped.  One action of the state machine is one call of a public       *)
(* operation by one instance.                                              *)
(***************************************************************************)
EXTENDS Integers, Sequences, FiniteSets, TLC

VARIABLES
    live,           \* the instances that have been constructed
    settings,       \* settings[i]: self.settings (the identity fields)
    core_api,       \* core_api[i]: self._core_api (username, running_user)
    session_store,  \* session_store[i]: self._session_store, the local cache
    attached,       \* attached[i]: self._session is not None
    session,        \* the external session shared by the instances (a dict)
    caps,           \* what the external session offers: save, flush_crypto_blocks
    alias,          \* which attributes the two instances hold as one shared object
    broken,         \* the external session raises on every access from now on
    failures,       \* history: calls the session has made raise (0, 1, 2 = more)
    born,           \* history: for every crypto block stored, who stored it and when
    minted,         \* history: number of crypto blocks produced so far
    booted,         \* history: the instances whose core API has started a remote session
    nops,           \* history: number of state-changing operations so far
    op              \* history: the last operation, its arguments, result and events

vars == <<live, settings, core_api, session_store, attached, session, caps,
          alias, broken, failures, born, minted, booted, nops, op>>

----------------------------------------------------------------------------
(* Bounds of the model *)

\* reconfigurations, set-block operations and remote calls in one run
MaxOps == 2
\* length of the object list given to _set_crypto_for_objects
MaxBatch == 2
\* largest day mask given to day_mask_to_bool_list (seven bits end at 127)
MaxDayMask == 130

----------------------------------------------------------------------------
(* Values *)

None == <<>>
Truthy(x) == x # None
Falsy(x) == x = None

Inst == {1, 2}

Usernames == {<<"u1">>, <<"u2">>}
Passwords == {<<"pw">>}
RemoteIps == {<<"ip1">>}
RemoteSites == {<<"s1">>}
RunningUsers == {<<"ru1">>}
START_SESSION == <<"start", "_", "session">>
Methods == {START_SESSION, <<"m1">>}
ObjKeys == {<<"k1">>, <<"k2">>}

Opt(S) == S \cup {None}

\* the n-th crypto block the remote side or a caller produces: an opaque token
Block(n) == <<"blk", ToString(n)>>

\* unicode(x) / '{0}'.format(x)
Str(x) == IF x = None THEN <<"None">> ELSE x

StartsWith(s, p) == Len(s) >= Len(p) /\ SubSeq(s, 1, Len(p)) = p

\* dict.get(key, None), dict[key] = value, and deletion of a set of keys
EmptyDict == [k \in {} |-> None]
DictGet(d, k) == IF k \in DOMAIN d THEN d[k] ELSE None
DictSet(d, k, v) == [x \in (DOMAIN d) \cup {k} |-> IF x = k THEN v ELSE d[x]]
DictDel(d, ks) == [x \in (DOMAIN d) \ ks |-> d[x]]

Ev(e, k) == [e |-> e, k |-> k]

----------------------------------------------------------------------------
(* Class attributes and cache keys *)

CRYPTO_PREFIX == <<"CRYPTO", "_", "BLOCK">>
USERNAME_PREFIX == <<"USERNAME">>
\* (mutant) the running-user keys share the prefix of the username keys
RUNNING_USER_PREFIX_AsUsername == <<"USERNAME">>

RUNNING_USER_PREFIX == <<"RUNNING", "_", "USER">>

_get_settings(username, password, remote_ip, remote_site) ==
    [username |-> username, password |-> password,
     remote_ip |-> remote_ip, remote_site |-> remote_site]

_get_username_session_key(remote_ip, remote_site) ==
    USERNAME_PREFIX \o <<"_">> \o Str(remote_ip) \o <<"_">> \o Str(remote_site)

_get_running_user_session_key(username) ==
    RUNNING_USER_PREFIX \o <<"_">> \o Str(username)

_get_crypto_session_key(username, method_name) ==
    CRYPTO_PREFIX \o <<"_">> \o Str(username) \o <<"_">> \o Str(method_name)

\* (mutant) the object's cache key is left out of the key
_get_crypto_object_key_NoObject(username, method_name, cache_key) ==
    _get_crypto_session_key(username, method_name)

_get_crypto_object_key(username, method_name, cache_key) ==
    _get_crypto_session_key(username, method_name) \o <<"_">> \o Str(cache_key)

----------------------------------------------------------------------------
(* History kept beside the program state.  Every crypto block that enters  *)
(* a cache is recorded with the instance that stored it, the identity      *)
(* (username, remote_ip, remote_site) in effect at that moment, the method *)
(* and the objects it was stored for, its number in the order in which the *)
(* blocks were produced, and whether a later reconfiguration               *)
(* of that instance changed its identity (moved), and whether it changed   *)
(* an identity field that had been set (stale).                            *)

Identity(st) == <<st.username, st.remote_ip, st.remote_site>>

Remember(w, crypto_block, method_name, cache_keys, via) ==
    LET before == IF crypto_block \in DOMAIN w.born
                  THEN w.born[crypto_block].objs ELSE {}
    IN  [w EXCEPT !.born = DictSet(@, crypto_block,
            [by |-> w.me, ident |-> Identity(w.st), method |-> method_name,
             objs |-> before \cup cache_keys, via |-> via, n |-> w.minted,
             moved |-> FALSE, stale |-> FALSE])]

\* a reconfiguration from settings old to settings new changed a field that was set
SetFieldChanged(old, new) ==
    \/ old.username # None /\ new.username # old.username
    \/ old.remote_ip # None /\ new.remote_ip # old.remote_ip
    \/ old.remote_site # None /\ new.remote_site # old.remote_site

Reconfigured(b, i, old, new) ==
    [x \in DOMAIN b |->
        IF b[x].by = i
        THEN [b[x] EXCEPT
                !.moved = @ \/ Identity(old) # Identity(new),
                !.stale = @ \/ SetFieldChanged(old, new)]
        ELSE b[x]]

----------------------------------------------------------------------------
(* The remote-call client, pyticketswitch.interface.CoreAPI.  A response   *)
(* of the remote side is either a failure or a session: a username and     *)
(* a running user, with or without a crypto block.                         *)

Responses ==
    [kind : {"ok"}, username : Usernames, running_user : RunningUsers,
     block : BOOLEAN]
    \cup {[kind |-> "raise", username |-> None, running_user |-> None,
           block |-> FALSE]}

CoreAPI(username) == [username |-> username, running_user |-> None]

CoreAPI_start_session(api, r) ==
    [api EXCEPT !.username = r.username, !.running_user = r.running_user]

----------------------------------------------------------------------------
(* Key-value store adapter *)

\* (mutant) every write commits the session
_store_data_AlwaysSave(w, key, data, save_session) ==
    LET w1 == [w EXCEPT !.loc = DictSet(@, key, data),
                        !.log = Append(@, Ev("local", key))]
        w2 == IF w1.att
              THEN [w1 EXCEPT !.ses = DictSet(@, key, data),
                              !.log = Append(@, Ev("session", key))]
              ELSE w1
    IN  IF w2.att /\ w2.caps.save
        THEN [w2 EXCEPT !.log = Append(@, Ev("save", key))]
        ELSE w2

\* the external session raises: the exception leaves the method at once
SessionRaises(w, key) ==
    [w EXCEPT !.exc = TRUE, !.log = Append(@, Ev("session_raise", key))]

\* (mutant) the session is written before the local cache
_store_data_SessionFirst(w, key, data, save_session) ==
    IF w.att /\ w.bad THEN SessionRaises(w, key)
    ELSE [w EXCEPT !.loc = DictSet(@, key, data),
                   !.ses = IF w.att THEN DictSet(@, key, data) ELSE @,
                   !.log = @ \o <<Ev("session", key), Ev("local", key)>>]

\* (mutant) the write is not mirrored to the session
_store_data_NoMirror(w, key, data, save_session) ==
    [w EXCEPT !.loc = DictSet(@, key, data),
              !.log = Append(@, Ev("local", key))]

_store_data(w, key, data, save_session) ==
    LET w1 == [w EXCEPT !.loc = DictSet(@, key, data),
                        !.log = Append(@, Ev("local", key))]
        w2 == IF w1.att
              THEN [w1 EXCEPT !.ses = DictSet(@, key, data),
                              !.log = Append(@, Ev("session", key))]
              ELSE w1
    IN  IF w.exc THEN w
        ELSE IF w1.att /\ w1.bad THEN SessionRaises(w1, key)
        ELSE IF w2.att /\ save_session /\ w2.caps.save
        THEN [w2 EXCEPT !.log = Append(@, Ev("save", key))]
        ELSE w2

\* (mutant) only the external session is read
_retrieve_data_SessionOnly(w, key) ==
    IF w.att THEN DictGet(w.ses, key) ELSE None

_retrieve_data(w, key) ==
    LET data == DictGet(w.loc, key)
    IN  IF Falsy(data) /\ w.att THEN DictGet(w.ses, key) ELSE data

\* _retrieve_data as a call of its own: self._session.get(key) is reached on a
\* local miss only, and a session that raises makes the call raise
Retrieve(w, key) ==
    IF Falsy(DictGet(w.loc, key)) /\ w.att /\ w.bad
    THEN SessionRaises(w, key)
    ELSE [w EXCEPT !.rv = _retrieve_data(w, key)]

_get_cached_username(w, remote_ip, remote_site) ==
    _retrieve_data(w, _get_username_session_key(remote_ip, remote_site))

_set_cached_username(w, username, remote_ip, remote_site) ==
    _store_data(w, _get_username_session_key(remote_ip, remote_site),
                username, TRUE)

_get_cached_running_user(w, username) ==
    _retrieve_data(w, _get_running_user_session_key(username))

\* (mutant) the running user is not cached
_set_cached_running_user_Skipped(w, username, running_user) == w

_set_cached_running_user(w, username, running_user) ==
    _store_data(w, _get_running_user_session_key(username), running_user, TRUE)

CryptoKeys(d) == {k \in DOMAIN d : StartsWith(k, CRYPTO_PREFIX)}

\* session.flush_crypto_blocks(), offered by some external sessions
Session_flush_crypto_blocks(ses) == DictDel(ses, CryptoKeys(ses))

\* (mutant) only the local cache is cleared
_clear_crypto_blocks_LocalOnly(w) ==
    [w EXCEPT !.loc = DictDel(@, CryptoKeys(@)),
              !.log = Append(@, Ev("clear_local", None))]

\* (mutant) the session's flush_crypto_blocks is never used
_clear_crypto_blocks_NeverFlush(w) ==
    LET w1 == [w EXCEPT !.loc = DictDel(@, CryptoKeys(@)),
                        !.log = Append(@, Ev("clear_local", None))]
    IN  IF w1.att
        THEN [w1 EXCEPT !.ses = DictDel(@, CryptoKeys(@)),
                        !.log = Append(@, Ev("clear_session", None))]
        ELSE w1

\* (mutant) every key is deleted, whatever its prefix
_clear_crypto_blocks_EveryKey(w) ==
    LET w1 == [w EXCEPT !.loc = EmptyDict,
                        !.log = Append(@, Ev("clear_local", None))]
    IN  IF w1.att
        THEN [w1 EXCEPT !.ses = EmptyDict,
                        !.log = Append(@, Ev("clear_session", None))]
        ELSE w1

_clear_crypto_blocks(w) ==
    LET w1 == [w EXCEPT !.loc = DictDel(@, CryptoKeys(@)),
                        !.log = Append(@, Ev("clear_local", None))]
    IN  IF w1.att /\ w1.bad THEN SessionRaises(w1, None)
        ELSE IF w1.att
        THEN IF w1.caps.flush
             THEN [w1 EXCEPT !.ses = Session_flush_crypto_blocks(@),
                             !.log = Append(@, Ev("flush", None))]
             ELSE [w1 EXCEPT !.ses = DictDel(@, CryptoKeys(@)),
                             !.log = Append(@, Ev("clear_session", None))]
        ELSE w1

----------------------------------------------------------------------------
(* Crypto-block writes *)

_set_crypto_block(w, crypto_block, method_name) ==
    LET session_key == _get_crypto_session_key(w.st.username, method_name)
    IN  _store_data(Remember(w, crypto_block, method_name, {}, "method"),
                    session_key, crypto_block, TRUE)

_set_crypto_for_object(w, crypto_block, method_name, cache_key) ==
    LET key == _get_crypto_object_key(w.st.username, method_name, cache_key)
    IN  _store_data(Remember(w, crypto_block, method_name, {cache_key}, "object"),
                    key, crypto_block, TRUE)

\* the loop of _set_crypto_for_objects from its i-th object (1-based) on
RECURSIVE SetCryptoLoop(_, _, _, _, _)
SetCryptoLoop(w, crypto_block, method_name, interface_objects, i) ==
    IF i > Len(interface_objects) THEN w
    ELSE LET key == _get_crypto_object_key(w.st.username, method_name,
                                           interface_objects[i])
             save_session == (i = Len(interface_objects))
             w1 == _store_data(
                       Remember(w, crypto_block, method_name,
                                {interface_objects[i]}, "object"),
                       key, crypto_block, save_session)
         IN  SetCryptoLoop(w1, crypto_block, method_name, interface_objects, i + 1)

_set_crypto_for_objects(w, crypto_block, method_name, interface_objects) ==
    SetCryptoLoop(w, crypto_block, method_name, interface_objects, 1)

----------------------------------------------------------------------------
(* Session bootstrap and identity resolution *)

\* (mutant) the password is never seen
_password_is_set_Never(w) == FALSE

_password_is_set(w) == Truthy(w.st.password)

\* (mutant) the username of the new session is neither kept nor cached
_start_session_UsernameNotKept(w) ==
    LET r == Head(w.resp)
        w0 == [w EXCEPT !.resp = Tail(@), !.calls = @ + 1,
                        !.log = Append(@, Ev("remote", None))]
    IN  IF r.kind = "raise" THEN [w0 EXCEPT !.exc = TRUE]
        ELSE
        LET crypto_block == IF r.block THEN Block(w0.minted + 1) ELSE None
            w1 == [w0 EXCEPT !.api = CoreAPI_start_session(@, r),
                             !.minted = IF r.block THEN @ + 1 ELSE @,
                             !.booted = @ \cup {w.me}]
            w3 == IF Truthy(crypto_block)
                  THEN _set_crypto_block(w1, crypto_block, START_SESSION)
                  ELSE w1
        IN  [w3 EXCEPT !.rv = crypto_block]

_start_session(w) ==
    LET r == Head(w.resp)
        w0 == [w EXCEPT !.resp = Tail(@), !.calls = @ + 1,
                        !.log = Append(@, Ev("remote", None))]
    IN  IF r.kind = "raise" THEN [w0 EXCEPT !.exc = TRUE]
        ELSE
        LET crypto_block == IF r.block THEN Block(w0.minted + 1) ELSE None
            w1 == [w0 EXCEPT !.api = CoreAPI_start_session(@, r),
                             !.minted = IF r.block THEN @ + 1 ELSE @,
                             !.booted = @ \cup {w.me}]
            username == w1.api.username
            w2 == IF Falsy(w1.st.username) \/ username # w1.st.username
                  THEN LET remote_ip == w1.st.remote_ip
                           remote_site == w1.st.remote_site
                           a == [w1 EXCEPT !.st.username = username]
                           b == _set_cached_username(a, username, remote_ip,
                                                     remote_site)
                       IN  _set_cached_running_user(b, username,
                                                    b.api.running_user)
                  ELSE w1
            w3 == IF Truthy(crypto_block)
                  THEN _set_crypto_block(w2, crypto_block, START_SESSION)
                  ELSE w2
        IN  [w3 EXCEPT !.rv = crypto_block]

get_username(w) ==
    LET w1 == IF Falsy(w.st.username)
              THEN LET username == _get_cached_username(w, w.st.remote_ip,
                                                        w.st.remote_site)
                   IN  IF Falsy(username) THEN _start_session(w) ELSE w
              ELSE w
    IN  IF w1.exc THEN w1 ELSE [w1 EXCEPT !.rv = w1.st.username]

\* (w1, the world after self.get_username(), is bound as the one element of a
\* set, so that it is computed once)
_get_running_user(w) ==
    IF Falsy(w.api.running_user)
    THEN CHOOSE out \in
           { IF w1.exc THEN w1
             ELSE LET running_user == _get_cached_running_user(w1, w1.rv)
                      w2 == IF Truthy(running_user)
                            THEN [w1 EXCEPT !.api.running_user = running_user]
                            ELSE _start_session(w1)
                  IN  IF w2.exc THEN w2
                      ELSE [w2 EXCEPT !.rv = w2.api.running_user]
             : w1 \in {get_username(w)} } : TRUE
    ELSE [w EXCEPT !.rv = w.api.running_user]

----------------------------------------------------------------------------
(* Crypto-block reads *)

\* (mutant) a miss starts a session for every method, not for 'start_session' only
get_crypto_block_BootstrapsOnMiss(w, method_name, password_required) ==
    LET w1 == IF Falsy(w.st.username) THEN _start_session(w)
              ELSE [w EXCEPT !.rv = None]
    IN  IF w1.exc THEN w1
        ELSE LET crypto_block == _retrieve_data(w1,
                     _get_crypto_session_key(w1.st.username, method_name))
             IN  IF Falsy(crypto_block) THEN _start_session(w1)
                 ELSE [w1 EXCEPT !.rv = crypto_block]

get_crypto_block(w, method_name, password_required) ==
    IF password_required \/ (~password_required /\ ~_password_is_set(w))
    THEN LET w1 == IF Falsy(w.st.username) THEN _start_session(w)
                   ELSE [w EXCEPT !.rv = None]
         IN  IF w1.exc THEN w1
             ELSE
             LET start_session_crypto == w1.rv
                 session_key == _get_crypto_session_key(w1.st.username,
                                                        method_name)
                 crypto_block == _retrieve_data(w1, session_key)
             IN  IF Falsy(crypto_block) /\ method_name = START_SESSION
                 THEN IF Truthy(start_session_crypto)
                      THEN [w1 EXCEPT !.rv = start_session_crypto]
                      ELSE _start_session(w1)
                 ELSE [w1 EXCEPT !.rv = crypto_block]
    ELSE [w EXCEPT !.rv = None]

_get_crypto_block_for_object(w, method_name, cache_key) ==
    LET w1 == IF Falsy(w.st.username) THEN _start_session(w) ELSE w
    IN  IF w1.exc THEN w1
        ELSE LET key == _get_crypto_object_key(w1.st.username, method_name,
                                               cache_key)
             IN  [w1 EXCEPT !.rv = _retrieve_data(w1, key)]

----------------------------------------------------------------------------
(* Reconfiguration *)

\* (mutant) the condition without its remote_site clause
IdentityChanged_IgnoresSite(st, username, remote_ip, remote_site) ==
    \/ Truthy(st.username) /\ username # st.username
    \/ Truthy(st.remote_ip) /\ remote_ip # st.remote_ip

\* (mutant) the condition without its remote_ip clause
IdentityChanged_IgnoresIp(st, username, remote_ip, remote_site) ==
    \/ Truthy(st.username) /\ username # st.username
    \/ Truthy(st.remote_site) /\ remote_site # st.remote_site

\* (mutant) every reconfiguration clears the crypto blocks
IdentityChanged_Always(st, username, remote_ip, remote_site) == TRUE

\* the condition of _configure under which the crypto blocks are cleared
IdentityChanged(st, username, remote_ip, remote_site) ==
    \/ Truthy(st.username) /\ username # st.username
    \/ Truthy(st.remote_ip) /\ remote_ip # st.remote_ip
    \/ Truthy(st.remote_site) /\ remote_site # st.remote_site

\* _configure looks the username up in the cache: none was given, and both
\* remote_ip and remote_site were
LooksUpUsername(a) ==
    Falsy(a.username) /\ Truthy(a.remote_ip) /\ Truthy(a.remote_site)

\* (mutant) a cached username takes precedence over the one given
ResolvedUsername_CachedFirst(w, a) ==
    LET cached == _get_cached_username(w, a.remote_ip, a.remote_site)
    IN  IF Truthy(cached) THEN cached ELSE a.username

\* the username _configure resolves: the given one, else the cached one
ResolvedUsername(w, a) ==
    IF LooksUpUsername(a)
    THEN _get_cached_username(w, a.remote_ip, a.remote_site)
    ELSE a.username

_configure(w, a) ==
    LET username == ResolvedUsername(w, a)
        w0 == IF LooksUpUsername(a)
              THEN [w EXCEPT !.log = Append(@,
                       Ev("lookup", _get_username_session_key(a.remote_ip,
                                                              a.remote_site)))]
              ELSE w
        w1 == IF IdentityChanged(w.st, username, a.remote_ip, a.remote_site)
              THEN _clear_crypto_blocks(w0)
              ELSE w0
    IN  [w1 EXCEPT !.st = _get_settings(username, a.password, a.remote_ip,
                                        a.remote_site),
                   !.api = CoreAPI(username),
                   !.booted = @ \ {w.me},
                   !.log = Append(@, Ev("settings", None))]

----------------------------------------------------------------------------
(* Serialization *)

\* self.__dict__.copy(): the attributes of the instance, by name; an attribute
\* that is None is None, a session is the mapping it holds
InstanceDict(w) ==
    [_session |-> IF w.att THEN [mapping |-> w.ses] ELSE None,
     _core_api |-> w.api,
     settings |-> w.st,
     _session_store |-> w.loc]

\* (mutant) the local cache is serialized with the instance
__getstate___KeepsSessionStore(w) ==
    LET d == InstanceDict(w)
    IN  [w EXCEPT !.rv = [d EXCEPT !._session = None, !._core_api = None,
                                   !.settings = _get_settings(None, None, None,
                                                              None)]]

__getstate__(w) ==
    LET d == InstanceDict(w)
    IN  [w EXCEPT !.rv = [d EXCEPT !._session = None, !._core_api = None,
                                   !.settings = _get_settings(None, None, None,
                                                              None),
                                   !._session_store = EmptyDict]]

----------------------------------------------------------------------------
(* The state machine: one action per call of a public operation *)

CfgArgs ==
    [username : Opt(Usernames), password : Opt(Passwords),
     remote_ip : Opt(RemoteIps), remote_site : Opt(RemoteSites)]

NoArgs == _get_settings(None, None, None, None)

\* the external sessions a host may supply: a plain mapping, one with save(),
\* one with save() and flush_crypto_blocks()
SessionKinds ==
    {[save |-> FALSE, flush |-> FALSE], [save |-> TRUE, flush |-> FALSE],
     [save |-> TRUE, flush |-> TRUE]}

ObjLists == UNION {[1..n -> ObjKeys] : n \in 0..MaxBatch}

Fail == [kind |-> "raise", username |-> None, running_user |-> None,
         block |-> FALSE]

\* self, as instance i sees it when an operation starts
World(i, rs) ==
    [me |-> i, st |-> settings[i], api |-> core_api[i],
     loc |-> session_store[i], att |-> attached[i], ses |-> session,
     caps |-> caps, bad |-> broken,
     born |-> born, minted |-> minted, booted |-> booted,
     resp |-> rs, calls |-> 0, log |-> <<>>, exc |-> FALSE, rv |-> None]

\* the world of __init__ before _configure runs (lines 45-60)
Blank(i, att, ses, cps) ==
    [me |-> i, st |-> NoArgs, api |-> CoreAPI(None),
     loc |-> EmptyDict, att |-> att, ses |-> ses,
     caps |-> cps, bad |-> FALSE,
     born |-> EmptyDict, minted |-> 0, booted |-> {},
     resp |-> <<>>, calls |-> 0, log |-> <<>>, exc |-> FALSE, rv |-> None]

\* the outcomes of operation F called by instance i, one for every way the
\* remote side may answer the calls F makes (it makes at most two)
Outcomes(i, F(_)) ==
    LET p0 == F(World(i, <<Fail, Fail>>))
    IN  IF p0.calls = 0 THEN {p0}
        ELSE UNION {
            LET p1 == F(World(i, <<r1, Fail>>))
            IN  IF p1.calls < 2 THEN {p1}
                ELSE {F(World(i, <<r1, r2>>)) : r2 \in Responses}
            : r1 \in Responses}

\* what the operation found when it started
Pre(w) ==
    [st |-> w.st, api |-> w.api, loc |-> w.loc, ses |-> w.ses,
     born |-> w.born, booted |-> w.booted]

\* the call: its name and arguments, what it found, what it returned (ret, or
\* an exception), the events it performed and its remote calls
Op(name, w0, w, method, objs, pwreq, cfg, block) ==
    [name |-> name, inst |-> w.me, method |-> method, objs |-> objs,
     pwreq |-> pwreq, cfg |-> cfg, block |-> block, arg |-> None,
     pre |-> Pre(w0),
     ret |-> IF w.exc THEN None ELSE w.rv, exc |-> w.exc,
     log |-> w.log, calls |-> w.calls]

\* no call is in progress
Idle ==
    [name |-> "idle", inst |-> 0, method |-> None, objs |-> <<>>,
     pwreq |-> TRUE, cfg |-> NoArgs, block |-> None, arg |-> None,
     pre |-> Pre(Blank(0, FALSE, EmptyDict, [save |-> FALSE, flush |-> FALSE])),
     ret |-> None, exc |-> FALSE, log |-> <<>>, calls |-> 0]

\* The attributes settings, _core_api and _session_store are references to
\* objects.  Two instances hold an attribute as one object (alias) after one
\* was constructed from the other's _internal_settings(); fresh records that
\* this has happened and neither has been reconfigured since.
NoAlias ==
    [settings |-> FALSE, core_api |-> FALSE, session_store |-> FALSE,
     fresh |-> FALSE]

\* (mutant) __init__ copies the objects it is given
PassedByReference_Copied ==
    [settings |-> FALSE, core_api |-> FALSE, session_store |-> FALSE]

\* __init__ binds the objects it is given; it copies none of them
PassedByReference ==
    [settings |-> TRUE, core_api |-> TRUE, session_store |-> TRUE]

\* _configure binds self.settings and self._core_api to new objects; the
\* local cache stays the object it was
Rebound(al) ==
    [al EXCEPT !.settings = FALSE, !.core_api = FALSE, !.fresh = FALSE]

\* the instances that see a change made by instance i to an object
Peers(i, aliased) == IF aliased THEN Inst ELSE {i}

\* the attributes of self and the session after the operation, the objects
\* being shared as al says
Store(i, w, al) ==
    /\ settings' = [j \in Inst |->
                       IF j \in Peers(i, al.settings) THEN w.st ELSE settings[j]]
    /\ core_api' = [j \in Inst |->
                       IF j \in Peers(i, al.core_api) THEN w.api ELSE core_api[j]]
    /\ session_store' = [j \in Inst |->
                            IF j \in Peers(i, al.session_store) THEN w.loc
                            ELSE session_store[j]]
    /\ session' = w.ses
    /\ minted' = w.minted
    /\ booted' = w.booted
    /\ alias' = al

\* an operation that changes the objects in place
Commit(i, w) == Store(i, w, alias)

\* instance 1 has been constructed with arguments from args, on an external
\* session of a kind from kinds or, if bare, possibly on none
InitWith(args, kinds, bare) ==
    \E a \in args, cps \in kinds, att \in {TRUE, ~bare} :
        LET w == _configure(Blank(1, att, EmptyDict, cps), a)
        IN  /\ live = {1}
            /\ settings = [i \in Inst |-> IF i = 1 THEN w.st ELSE NoArgs]
            /\ core_api = [i \in Inst |-> IF i = 1 THEN w.api ELSE CoreAPI(None)]
            /\ session_store = [i \in Inst |-> EmptyDict]
            /\ attached = [i \in Inst |-> att]
            /\ session = EmptyDict
            /\ caps = IF att THEN cps ELSE [save |-> FALSE, flush |-> FALSE]
            /\ alias = NoAlias
            /\ broken = FALSE
            /\ failures = 0
            /\ born = EmptyDict
            /\ minted = 0
            /\ booted = {}
            /\ nops = 0
            /\ op = Idle

\* the call returns and the caller goes on
Return ==
    /\ op.name # "idle"
    /\ op' = Idle
    /\ UNCHANGED <<live, settings, core_api, session_store, attached, session,
                   caps, alias, broken, failures, born, minted, booted, nops>>

\* InterfaceObject(session=..., **a) for a second instance on the same session
Construct(i, a) ==
    /\ op.name = "idle"
    /\ i \notin live
    /\ LET w0 == [Blank(i, attached[i], session, caps) EXCEPT
                     !.bad = broken,
                     !.born = born, !.minted = minted, !.booted = booted]
           w == _configure(w0, a)
       IN  /\ Commit(i, w)
           /\ op' = Op("__init__", w0, w, None, <<>>, TRUE, a, None)
    /\ live' = live \cup {i}
    /\ UNCHANGED <<attached, caps, broken, failures, born, nops>>

\* self._internal_settings(): the four objects of self, by reference
_internal_settings(w) ==
    [session |-> IF w.att THEN [mapping |-> w.ses] ELSE None,
     _core_api |-> w.api,
     _settings |-> w.st,
     _session_store |-> w.loc]

\* InterfaceObject(**i._internal_settings()) for a second instance j: the four
\* keyword arguments are bound (lines 49-60) and, none being left, _configure
\* is not called (62-63)
Clone(i, j) ==
    /\ op.name = "idle"
    /\ i \in live /\ j \notin live
    /\ LET kwargs == _internal_settings(World(i, <<>>))
           w0 == World(i, <<>>)
           w == [w0 EXCEPT !.me = j, !.st = kwargs._settings,
                           !.api = kwargs._core_api,
                           !.loc = kwargs._session_store]
       IN  /\ settings' = [settings EXCEPT ![j] = w.st]
           /\ core_api' = [core_api EXCEPT ![j] = w.api]
           /\ session_store' = [session_store EXCEPT ![j] = w.loc]
           /\ op' = [Op("__init__", w0, w, None, <<>>, TRUE, NoArgs, None)
                        EXCEPT !.arg = <<"_internal_settings", i>>]
    /\ alias' = [settings |-> PassedByReference.settings,
                 core_api |-> PassedByReference.core_api,
                 session_store |-> PassedByReference.session_store,
                 fresh |-> TRUE]
    /\ live' = live \cup {j}
    /\ UNCHANGED <<attached, session, caps, broken, failures, born, minted,
                   booted, nops>>

Configure(i, a) ==
    /\ op.name = "idle"
    /\ i \in live
    /\ nops < MaxOps
    /\ LET w == _configure(World(i, <<>>), a)
       IN  /\ Store(i, w, Rebound(alias))
           /\ born' = Reconfigured(born, i, settings[i], w.st)
           /\ op' = Op("_configure", World(i, <<>>), w, None, <<>>, TRUE, a, None)
    /\ nops' = nops + 1
    /\ UNCHANGED <<live, attached, caps, broken, failures>>

\* a set-block operation; the caller passes a crypto block it has just received
Write(i, name, w, method, objs) ==
    /\ op.name = "idle"
    /\ i \in live
    /\ nops < MaxOps
    /\ Commit(i, w)
    /\ born' = w.born
    /\ op' = Op(name, World(i, <<>>), w, method, objs, TRUE, NoArgs,
                Block(minted + 1))
    /\ nops' = nops + 1
    /\ UNCHANGED <<live, attached, caps, broken, failures>>

Fresh(i) == [World(i, <<>>) EXCEPT !.minted = @ + 1]

SetCryptoBlock(i, method_name) ==
    Write(i, "_set_crypto_block",
          _set_crypto_block(Fresh(i), Block(minted + 1), method_name),
          method_name, <<>>)

SetCryptoForObject(i, method_name, cache_key) ==
    Write(i, "_set_crypto_for_object",
          _set_crypto_for_object(Fresh(i), Block(minted + 1), method_name,
                                 cache_key),
          method_name, <<cache_key>>)

SetCryptoForObjects(i, method_name, interface_objects) ==
    Write(i, "_set_crypto_for_objects",
          _set_crypto_for_objects(Fresh(i), Block(minted + 1), method_name,
                                  interface_objects),
          method_name, interface_objects)

\* a read operation; it may start a session, and then it counts its remote calls
Read(i, name, w, method, objs, pwreq) ==
    /\ nops + w.calls <= MaxOps
    /\ Commit(i, w)
    /\ born' = w.born
    /\ op' = Op(name, World(i, <<>>), w, method, objs, pwreq, NoArgs, None)
    /\ nops' = nops + w.calls
    /\ UNCHANGED <<live, attached, caps, broken, failures>>

GetUsername(i) ==
    /\ op.name = "idle"
    /\ i \in live
    /\ \E w \in Outcomes(i, get_username) :
          Read(i, "get_username", w, None, <<>>, TRUE)

GetRunningUser(i) ==
    /\ op.name = "idle"
    /\ i \in live
    /\ \E w \in Outcomes(i, _get_running_user) :
          Read(i, "_get_running_user", w, None, <<>>, TRUE)

GetCryptoBlock(i, method_name, password_required) ==
    /\ op.name = "idle"
    /\ i \in live
    /\ \E w \in Outcomes(i, LAMBDA x :
                 get_crypto_block(x, method_name, password_required)) :
          Read(i, "get_crypto_block", w, method_name, <<>>, password_required)

GetCryptoBlockForObject(i, method_name, cache_key) ==
    /\ op.name = "idle"
    /\ i \in live
    /\ \E w \in Outcomes(i, LAMBDA x :
                 _get_crypto_block_for_object(x, method_name, cache_key)) :
          Read(i, "_get_crypto_block_for_object", w, method_name,
               <<cache_key>>, TRUE)

\* pickling the instance: a call of __getstate__
GetState(i) ==
    /\ op.name = "idle"
    /\ i \in live
    /\ LET w == __getstate__(World(i, <<>>))
       IN  /\ Commit(i, w)
           /\ op' = Op("__getstate__", World(i, <<>>), w, None, <<>>, TRUE,
                       NoArgs, None)
    /\ UNCHANGED <<live, attached, caps, broken, failures, born, nops>>

\* a call of the key-value store adapter itself
AdapterOp(name, w0, w, key, data, save_session) ==
    [Op(name, w0, w, None, <<>>, save_session, NoArgs, data) EXCEPT !.arg = key]

\* the call has run on instance i; a call the session made raise is counted
Adapter(i, w) ==
    /\ Commit(i, w)
    /\ failures' = IF w.exc /\ failures < 2 THEN failures + 1 ELSE failures
    /\ UNCHANGED <<live, attached, caps, broken, born>>

StoreData(i, key, data, save_session) ==
    /\ op.name = "idle"
    /\ i \in live
    /\ nops < MaxOps
    /\ LET w == _store_data(World(i, <<>>), key, data, save_session)
       IN  /\ Adapter(i, w)
           /\ op' = AdapterOp("_store_data", World(i, <<>>), w, key, data,
                              save_session)
    /\ nops' = nops + 1

RetrieveData(i, key) ==
    /\ op.name = "idle"
    /\ i \in live
    /\ LET w == Retrieve(World(i, <<>>), key)
       IN  /\ Adapter(i, w)
           /\ op' = AdapterOp("_retrieve_data", World(i, <<>>), w, key, None,
                              TRUE)
    /\ UNCHANGED nops

ClearCryptoBlocks(i) ==
    /\ op.name = "idle"
    /\ i \in live
    /\ nops < MaxOps
    /\ LET w == _clear_crypto_blocks(World(i, <<>>))
       IN  /\ Adapter(i, w)
           /\ op' = AdapterOp("_clear_crypto_blocks", World(i, <<>>), w, None,
                              None, TRUE)
    /\ nops' = nops + 1

\* the external session breaks down for good
Break ==
    /\ op.name = "idle"
    /\ ~broken
    /\ broken' = TRUE
    /\ UNCHANGED <<live, settings, core_api, session_store, attached, session,
                   caps, alias, failures, born, minted, booted, nops, op>>

----------------------------------------------------------------------------
(* pyticketswitch.util *)

\* the width of the format '{0:07b}'
DayMaskWidth == 7

\* the binary digits of n, most significant first ('{0:b}'.format(n))
RECURSIVE Binary(_)
Binary(n) ==
    IF n < 2 THEN <<ToString(n)>> ELSE Binary(n \div 2) \o <<ToString(n % 2)>>

\* s padded with zeros on the left up to a width; a longer s is left as it is
ZeroPad(s, width) ==
    IF Len(s) >= width THEN s
    ELSE [i \in 1..width |->
             IF i <= width - Len(s) THEN "0" ELSE s[i - (width - Len(s))]]

\* (mutant) the list is not reversed
Reversed_Not(s) == s

\* reversed(s)
Reversed(s) == [i \in 1..Len(s) |-> s[Len(s) + 1 - i]]

day_mask_to_bool_list(day_mask) ==
    LET bit_str == ZeroPad(Binary(day_mask), DayMaskWidth)
        bit_str_list == bit_str
        rev == Reversed(bit_str_list)
        bool_list == [i \in 1..Len(rev) |-> rev[i] # "0"]
    IN  bool_list

\* a call of day_mask_to_bool_list
DayMaskToBoolList(day_mask) ==
    /\ op.name = "idle"
    /\ op' = [Idle EXCEPT !.name = "day_mask_to_bool_list",
                          !.arg = day_mask,
                          !.ret = day_mask_to_bool_list(day_mask)]
    /\ UNCHANGED <<live, settings, core_api, session_store, attached, session,
                   caps, alias, broken, failures, born, minted, booted, nops>>

\* The arguments and results of resolve_boolean and boolean_to_yes_no are
\* Python values of three types; a value is its type and its text, so that
\* None, '', False and 'False' are four different values.
PyNone == [type |-> "NoneType", text |-> <<>>]
PyBool(b) == [type |-> "bool", text |-> IF b THEN <<"True">> ELSE <<"False">>]
PyStr(s) == [type |-> "str", text |-> s]

\* bool(x): 'if x' in Python
PyTruth(x) ==
    CASE x.type = "NoneType" -> FALSE
      [] x.type = "bool" -> x = PyBool(TRUE)
      [] x.type = "str" -> x.text # <<>>

\* (mutant) every string other than 'yes' resolves to None
resolve_boolean_YesOrNone(yes_no_string) ==
    IF PyTruth(yes_no_string) /\ yes_no_string = PyStr(<<"yes">>)
    THEN PyBool(TRUE)
    ELSE PyNone

resolve_boolean(yes_no_string) ==
    IF PyTruth(yes_no_string)
    THEN IF yes_no_string = PyStr(<<"yes">>) THEN PyBool(TRUE)
         ELSE PyBool(FALSE)
    ELSE PyNone

boolean_to_yes_no(boolean) ==
    IF boolean = PyBool(TRUE) THEN PyStr(<<"yes">>) ELSE PyStr(<<"no">>)

\* a call of resolve_boolean
ResolveBoolean(yes_no_string) ==
    /\ op.name = "idle"
    /\ op' = [Idle EXCEPT !.name = "resolve_boolean",
                          !.arg = yes_no_string,
                          !.ret = resolve_boolean(yes_no_string)]
    /\ UNCHANGED <<live, settings, core_api, session_store, attached, session,
                   caps, alias, broken, failures, born, minted, booted, nops>>

\* a call of boolean_to_yes_no
BooleanToYesNo(boolean) ==
    /\ op.name = "idle"
    /\ op' = [Idle EXCEPT !.name = "boolean_to_yes_no",
                          !.arg = boolean,
                          !.ret = boolean_to_yes_no(boolean)]
    /\ UNCHANGED <<live, settings, core_api, session_store, attached, session,
                   caps, alias, broken, failures, born, minted, booted, nops>>

\* resolve_boolean(boolean_to_yes_no(boolean))
YesNoRoundTrip(boolean) ==
    /\ op.name = "idle"
    /\ op' = [Idle EXCEPT !.name = "yes_no_round_trip",
                          !.arg = boolean,
                          !.ret = resolve_boolean(boolean_to_yes_no(boolean))]
    /\ UNCHANGED <<live, settings, core_api, session_store, attached, session,
                   caps, alias, broken, failures, born, minted, booted, nops>>

----------------------------------------------------------------------------
(* Calls that use no attribute of an instance *)

\* the four key functions applied to arguments of the caller's choice
CacheKeys(remote_ip, remote_site, username, crypto_username, method_name, cache_key) ==
    /\ op.name = "idle"
    /\ op' = [Idle EXCEPT
                !.name = "cache_keys",
                !.arg = <<remote_ip, remote_site, username, crypto_username,
                          method_name, cache_key>>,
                !.ret = [username |->
                             _get_username_session_key(remote_ip, remote_site),
                         running_user |->
                             _get_running_user_session_key(username),
                         crypto |->
                             _get_crypto_session_key(crypto_username,
                                                     method_name),
                         object |->
                             _get_crypto_object_key(crypto_username,
                                                    method_name, cache_key)]]
    /\ UNCHANGED <<live, settings, core_api, session_store, attached, session,
                   caps, alias, broken, failures, born, minted, booted, nops>>

----------------------------------------------------------------------------
(* Specifications *)

\* One instance, constructed with or without credentials, with or without an
\* external session, and every operation of the crypto-block cache.
Profiles ==
    [username : {None, <<"u1">>}, password : Opt(Passwords),
     remote_ip : {<<"ip1">>}, remote_site : {<<"s1">>}]

Init ==
    InitWith(Profiles, {[save |-> FALSE, flush |-> FALSE],
                        [save |-> TRUE, flush |-> FALSE]}, TRUE)

Next ==
    \/ Return
    \/ \E a \in Profiles : Configure(1, a)
    \/ \E m \in Methods : SetCryptoBlock(1, m)
    \/ \E m \in Methods, k \in ObjKeys : SetCryptoForObject(1, m, k)
    \/ \E m \in Methods, ks \in ObjLists : SetCryptoForObjects(1, m, ks)
    \/ GetUsername(1)
    \/ GetRunningUser(1)
    \/ \E m \in Methods, p \in BOOLEAN : GetCryptoBlock(1, m, p)
    \/ \E m \in Methods, k \in ObjKeys : GetCryptoBlockForObject(1, m, k)
    \/ GetState(1)

Spec == Init /\ [][Next]_vars

\* One instance under every identity (username, remote_ip, remote_site), on
\* no session, on one that is cleared key by key and on one that offers
\* flush_crypto_blocks: reconfiguration between the identities.
Identities ==
    [username : Opt(Usernames), password : {None},
     remote_ip : Opt(RemoteIps), remote_site : Opt(RemoteSites)]

InitIdentity ==
    InitWith(Identities, {[save |-> TRUE, flush |-> FALSE],
                          [save |-> TRUE, flush |-> TRUE]}, TRUE)

NextIdentity ==
    \/ Return
    \/ \E a \in Identities : Configure(1, a)
    \/ \E m \in Methods : SetCryptoBlock(1, m)
    \/ \E m \in Methods, k \in ObjKeys : SetCryptoForObject(1, m, k)
    \/ \E m \in Methods : GetCryptoBlock(1, m, TRUE)
    \/ \E m \in Methods, k \in ObjKeys : GetCryptoBlockForObject(1, m, k)

SpecIdentity == InitIdentity /\ [][NextIdentity]_vars

\* Two instances on one external session, each with its own local cache, both
\* constructed for the same (remote_ip, remote_site) without a username.
Anonymous ==
    [username : {None}, password : {None},
     remote_ip : RemoteIps, remote_site : RemoteSites]

InitShared == InitWith(Anonymous, {[save |-> TRUE, flush |-> FALSE]}, FALSE)

NextShared ==
    \/ Return
    \/ \E a \in Anonymous : Construct(2, a)
    \/ \E i \in Inst, m \in Methods : SetCryptoBlock(i, m)
    \/ \E i \in Inst : GetUsername(i)
    \/ \E i \in Inst, m \in Methods : GetCryptoBlock(i, m, TRUE)

SpecShared == InitShared /\ [][NextShared]_vars

\* Two instances on one external session, each with its own local cache, both
\* constructed with the same explicit username: writers of the same keys.
Named ==
    [username : {<<"u1">>}, password : {None},
     remote_ip : RemoteIps, remote_site : RemoteSites]

InitRace == InitWith(Named, {[save |-> TRUE, flush |-> FALSE]}, FALSE)

NextRace ==
    \/ Return
    \/ \E a \in Named : Construct(2, a)
    \/ \E i \in Inst, m \in Methods : SetCryptoBlock(i, m)
    \/ \E i \in Inst, m \in Methods : GetCryptoBlock(i, m, TRUE)

SpecRace == InitRace /\ [][NextRace]_vars

\* No instance yet: the state in which the functions that use no attribute of
\* an instance are applied.
InitPure ==
    /\ live = {}
    /\ settings = [i \in Inst |-> NoArgs]
    /\ core_api = [i \in Inst |-> CoreAPI(None)]
    /\ session_store = [i \in Inst |-> EmptyDict]
    /\ attached = [i \in Inst |-> FALSE]
    /\ session = EmptyDict
    /\ caps = [save |-> FALSE, flush |-> FALSE]
    /\ alias = NoAlias
    /\ broken = FALSE
    /\ failures = 0
    /\ born = EmptyDict
    /\ minted = 0
    /\ booted = {}
    /\ nops = 0
    /\ op = Idle

\* The cache keys of every kind, for values that contain underscores and the
\* words of the prefixes.
KeyParts ==
    {None, <<"ip1">>, <<"s1">>, <<"ip1", "_", "s1">>, <<"BLOCK", "_", "USER">>}

NextKeys ==
    \/ Return
    \/ /\ op.name = "idle"
       /\ \E remote_ip, remote_site, username \in KeyParts :
            \E crypto_username, method_name, cache_key \in KeyParts :
               CacheKeys(remote_ip, remote_site, username, crypto_username,
                         method_name, cache_key)

SpecKeys == InitPure /\ [][NextKeys]_vars

\* The functions of pyticketswitch.util, on every argument up to a bound.
YesNoStrings ==
    {PyNone, PyStr(<<>>), PyStr(<<"yes">>), PyStr(<<"no">>), PyStr(<<"Yes">>),
     PyStr(<<"YES">>), PyStr(<<"yes", " ">>), PyStr(<<"True">>),
     PyStr(<<"false">>), PyStr(<<"0">>)}

Booleans == {PyBool(TRUE), PyBool(FALSE)}

NextUtil ==
    \/ Return
    \/ \E day_mask \in 0..MaxDayMask : DayMaskToBoolList(day_mask)
    \/ \E yes_no_string \in YesNoStrings : ResolveBoolean(yes_no_string)
    \/ \E boolean \in Booleans \cup {PyNone, PyStr(<<"yes">>)} :
          BooleanToYesNo(boolean)
    \/ \E boolean \in Booleans : YesNoRoundTrip(boolean)

SpecUtil == InitPure /\ [][NextUtil]_vars

\* The key-value store adapter of one instance on an external session that may
\* hold entries of an earlier request and may break down at any moment.
StoreKeys ==
    {_get_crypto_session_key(<<"u1">>, <<"m1">>),
     _get_username_session_key(<<"ip1">>, <<"s1">>)}

StoreValues == {None, <<"v1">>, <<"v2">>}

StoredBefore ==
    {EmptyDict} \cup {DictSet(EmptyDict, k, <<"v0">>) : k \in StoreKeys}

InitStore ==
    \E ses0 \in StoredBefore, cps \in {[save |-> TRUE, flush |-> FALSE],
                                       [save |-> TRUE, flush |-> TRUE]} :
        /\ live = {1}
        /\ settings = [i \in Inst |-> NoArgs]
        /\ core_api = [i \in Inst |-> CoreAPI(None)]
        /\ session_store = [i \in Inst |-> EmptyDict]
        /\ attached = [i \in Inst |-> TRUE]
        /\ session = ses0
        /\ caps = cps
        /\ alias = NoAlias
        /\ broken = FALSE
        /\ failures = 0
        /\ born = EmptyDict
        /\ minted = 0
        /\ booted = {}
        /\ nops = 0
        /\ op = Idle

NextStore ==
    \/ Return
    \/ Break
    \/ \E k \in StoreKeys, v \in StoreValues, p \in BOOLEAN : StoreData(1, k, v, p)
    \/ \E k \in StoreKeys : RetrieveData(1, k)
    \/ ClearCryptoBlocks(1)

SpecStore == InitStore /\ [][NextStore]_vars

\* _clear_crypto_blocks on one instance whose local cache (given to the
\* constructor as _session_store, or filled by earlier calls) and whose session
\* hold any entries of the three kinds: crypto blocks for a method and for an
\* object, a cached username and a running user.
ClearKeys ==
    {_get_crypto_session_key(<<"u1">>, <<"m1">>),
     _get_crypto_object_key(<<"u1">>, <<"m1">>, <<"k1">>),
     _get_username_session_key(<<"ip1">>, <<"s1">>),
     _get_running_user_session_key(<<"u1">>)}

Stores == UNION {[ks -> {<<"v1">>}] : ks \in SUBSET ClearKeys}

InitClear ==
    \E loc0 \in Stores, ses0 \in Stores, att \in BOOLEAN, fl \in BOOLEAN :
        /\ att \/ (ses0 = EmptyDict /\ ~fl)
        /\ live = {1}
        /\ settings = [i \in Inst |->
                          IF i = 1
                          THEN _get_settings(<<"u1">>, None, <<"ip1">>, <<"s1">>)
                          ELSE NoArgs]
        /\ core_api = [i \in Inst |->
                          CoreAPI(IF i = 1 THEN <<"u1">> ELSE None)]
        /\ session_store = [i \in Inst |-> IF i = 1 THEN loc0 ELSE EmptyDict]
        /\ attached = [i \in Inst |-> att]
        /\ session = ses0
        /\ caps = [save |-> att, flush |-> fl]
        /\ alias = NoAlias
        /\ broken = FALSE
        /\ failures = 0
        /\ born = EmptyDict
        /\ minted = 0
        /\ booted = {}
        /\ nops = 0
        /\ op = Idle

NextClear ==
    \/ Return
    \/ ClearCryptoBlocks(1)

SpecClear == InitClear /\ [][NextClear]_vars

\* Two instances, the second constructed from the first one's
\* _internal_settings(), with or without an external session; one of them may
\* be reconfigured afterwards.
Shareable ==
    [username : {None, <<"u1">>}, password : {None},
     remote_ip : RemoteIps, remote_site : RemoteSites]

InitAlias == InitWith(Shareable, {[save |-> TRUE, flush |-> FALSE]}, TRUE)

NextAlias ==
    \/ Return
    \/ Clone(1, 2)
    \/ 2 \in live /\ \E i \in Inst, a \in Shareable : Configure(i, a)
    \/ \E i \in Inst, m \in Methods : SetCryptoBlock(i, m)
    \/ \E i \in Inst, m \in Methods, k \in ObjKeys : SetCryptoForObject(i, m, k)
    \/ \E i \in Inst : GetUsername(i)
    \/ \E i \in Inst, m \in Methods : GetCryptoBlock(i, m, TRUE)
    \/ \E i \in Inst, m \in Methods, k \in ObjKeys :
          GetCryptoBlockForObject(i, m, k)

SpecAlias == InitAlias /\ [][NextAlias]_vars

----------------------------------------------------------------------------
(* Claims.  A claim about a call is a predicate of the state in which the  *)
(* call has just returned: op is the call, op.pre what it found, and the   *)
(* variables what it left.                                                 *)

BlockReads == {"get_crypto_block", "_get_crypto_block_for_object"}

\* the call returned a crypto block
ReturnedBlock == op.name \in BlockReads /\ op.ret # None

\* event e1 occurs in the log, and every occurrence of e2 comes after it
Precedes(log, e1, e2) ==
    /\ \E x \in 1..Len(log) : log[x].e = e1
    /\ \A x, y \in 1..Len(log) : log[x].e = e1 /\ log[y].e = e2 => x < y

\* no crypto block is left in the local cache of instance i, nor in its session
NoCryptoBlocks(i) ==
    /\ CryptoKeys(session_store[i]) = {}
    /\ attached[i] => CryptoKeys(session) = {}

StoredFor(i, m) ==
    {b \in DOMAIN op.pre.born :
        LET h == op.pre.born[b]
        IN  h.by = i /\ h.method = m /\ h.via = "method"}

C4_SecondResolvesWithoutBootstrap ==
    (/\ op.name \in {"get_username", "get_crypto_block"}
     /\ op.inst = 2
     /\ 1 \in op.pre.booted /\ 2 \notin op.pre.booted
     /\ settings[1].remote_ip = settings[2].remote_ip
     /\ settings[1].remote_site = settings[2].remote_site)
        => /\ op.calls = 0
           /\ ~op.exc
           /\ settings[2].username = settings[1].username
           /\ op.name = "get_username" => op.ret = settings[1].username

\* no start_session block is cached, locally or in the session, before the call
NoStartSessionBlock ==
    \A u \in Opt(Usernames) :
        LET key == _get_crypto_session_key(u, START_SESSION)
        IN  /\ Falsy(DictGet(op.pre.loc, key))
            /\ Falsy(DictGet(op.pre.ses, key))

\* get_crypto_block('start_session', password_required=False) without password,
\* resolved username or cached start_session block, the remote call not failing
BootstrapRead ==
    /\ op.name = "get_crypto_block"
    /\ op.method = START_SESSION
    /\ ~op.pwreq
    /\ Falsy(op.pre.st.password)
    /\ Falsy(op.pre.st.username)
    /\ NoStartSessionBlock
    /\ ~op.exc

\* C5 (as claimed): get_crypto_block('start_session', password_required=False)
\* with no password, no resolved username and no cached start_session block
\* makes exactly one remote call and returns what that call produced (a block
\* never seen before, or none).
C5_ExactlyOneBootstrap ==
    BootstrapRead
        => /\ op.calls = 1
           /\ op.ret = None \/ op.ret \notin DOMAIN op.pre.born

\* C6: get_crypto_block(m, password_required=False) with a password in the
\* settings returns None, makes no remote call, raises nothing, and leaves the
\* settings, the core API, the local cache and the session as they were.
C6_PasswordSkipsCache ==
    (/\ op.name = "get_crypto_block"
     /\ ~op.pwreq
     /\ Truthy(op.pre.st.password))
        => /\ op.ret = None
           /\ op.calls = 0
           /\ ~op.exc
           /\ op.log = <<>>
           /\ settings[op.inst] = op.pre.st
           /\ core_api[op.inst] = op.pre.api
           /\ session_store[op.inst] = op.pre.loc
           /\ session = op.pre.ses

\* such a call made while a block for (username, m) is in the local cache
C6_Witness ==
    /\ op.name = "get_crypto_block"
    /\ ~op.pwreq
    /\ Truthy(op.pre.st.password)
    /\ Truthy(DictGet(op.pre.loc,
                      _get_crypto_session_key(op.pre.st.username, op.method)))
    /\ op.ret = None

\* C7 (as claimed): no single call of an operation makes more than one remote
\* start_session call.
C7_AtMostOneRemoteCall == op.calls <= 1

\* the blocks the instance stored through an object-keyed set for the username
\* it has now and the method of the call, for whatever object
StoredForObject ==
    {b \in DOMAIN op.pre.born :
        LET h == op.pre.born[b]
        IN  /\ h.by = op.inst
            /\ h.via = "object"
            /\ h.method = op.method
            /\ h.ident[1] = settings[op.inst].username}

\* C8: _get_crypto_block_for_object(method, A) never returns a block that was
\* stored, for the same username and method, only for objects other than A.
C8_ObjectsDoNotCollide ==
    (/\ op.name = "_get_crypto_block_for_object"
     /\ ~op.exc
     /\ op.ret \in StoredForObject)
        => op.objs[1] \in op.pre.born[op.ret].objs

\* a get for object A that returns A's block while another block is cached for
\* the same username and method under a different object
C8_Witness ==
    /\ op.name = "_get_crypto_block_for_object"
    /\ op.ret \in StoredForObject
    /\ op.objs[1] \in op.pre.born[op.ret].objs
    /\ \E b \in StoredForObject :
          /\ op.objs[1] \notin op.pre.born[b].objs
          /\ \E k \in op.pre.born[b].objs :
                Truthy(DictGet(op.pre.loc,
                    _get_crypto_object_key(settings[op.inst].username,
                                           op.method, k)))

\* the blocks stored by the instance under exactly the key of the read in
\* progress: same username, same method, same object (or none), and no
\* change of identity since
StoredUnderKey ==
    {b \in DOMAIN op.pre.born :
        LET h == op.pre.born[b]
        IN  /\ h.by = op.inst
            /\ h.method = op.method
            /\ h.ident[1] = op.pre.st.username
            /\ ~h.moved
            /\ IF op.name = "get_crypto_block" THEN h.via = "method"
               ELSE h.via = "object" /\ op.objs[1] \in h.objs}

\* the one stored last
LastStored(S) ==
    CHOOSE b \in S : \A c \in S : op.pre.born[c].n <= op.pre.born[b].n

\* a read of a crypto block by an instance with a resolved username, the
\* password gate open
KeyedRead ==
    /\ op.name \in BlockReads
    /\ Truthy(op.pre.st.username)
    /\ op.pwreq \/ Falsy(op.pre.st.password)

\* C9: round trip.  A crypto block stored with _set_crypto_block or
\* _set_crypto_for_object(s) is what get_crypto_block or
\* _get_crypto_block_for_object returns for the identical username, method and
\* object until another block is stored under that key or the identity
\* changes, with or without an external session; no remote call is made.
C9_RoundTrip ==
    (KeyedRead /\ StoredUnderKey # {})
        => /\ op.ret = LastStored(StoredUnderKey)
           /\ op.calls = 0
           /\ ~op.exc

\* a read without external session that returns the block stored last, an older
\* block having been stored under the same key
C9_Witness ==
    /\ KeyedRead
    /\ ~attached[op.inst]
    /\ Cardinality(StoredUnderKey) >= 2
    /\ op.ret = LastStored(StoredUnderKey)

\* a read on an external session that returns the block it stored
C9_WitnessSession ==
    /\ KeyedRead
    /\ attached[op.inst]
    /\ StoredUnderKey # {}
    /\ op.ret = LastStored(StoredUnderKey)

\* _set_crypto_for_objects on a session that has a save operation
BatchOnSavingSession ==
    /\ op.name = "_set_crypto_for_objects"
    /\ Len(op.objs) >= 1
    /\ attached[op.inst]
    /\ caps.save

\* the key written for the x-th object of the batch
BatchKey(x) ==
    _get_crypto_object_key(op.pre.st.username, op.method, op.objs[x])

\* session.save() is called once, as the last step, for the last object
SavedOnceAtEnd ==
    /\ Cardinality({x \in 1..Len(op.log) : op.log[x].e = "save"}) = 1
    /\ op.log[Len(op.log)] = Ev("save", BatchKey(Len(op.objs)))
    /\ op.log[Len(op.log) - 1] = Ev("session", BatchKey(Len(op.objs)))
    /\ op.log[Len(op.log) - 2] = Ev("local", BatchKey(Len(op.objs)))

\* C10 (as claimed): a batch of N >= 1 objects on a session with a save
\* operation commits once, after the write for the last object, and the writes
\* before the last one touch the local cache only.
C10_EarlierWritesLocalOnly ==
    BatchOnSavingSession
        => /\ SavedOnceAtEnd
           /\ \A x \in 1..(Len(op.log) - 3) : op.log[x].e = "local"

\* C10 (amended): a batch of N >= 1 objects on a session with a save operation
\* commits once, after the write for the last object; the write for each of
\* the objects before it updates the local cache and the session mapping, in
\* that order, without a commit.
C10_OneCommitAfterLastWrite ==
    BatchOnSavingSession
        => /\ SavedOnceAtEnd
           /\ Len(op.log) = 2 * Len(op.objs) + 1
           /\ \A x \in 1..(Len(op.objs) - 1) :
                 /\ op.log[2 * x - 1] = Ev("local", BatchKey(x))
                 /\ op.log[2 * x] = Ev("session", BatchKey(x))
                 /\ DictGet(session, BatchKey(x)) = op.block

\* a batch of two objects stored on a session with a save operation
C10_Witness ==
    /\ BatchOnSavingSession
    /\ Len(op.objs) >= 2
    /\ op.objs[1] # op.objs[2]
    /\ DictGet(session, BatchKey(1)) = op.block
    /\ DictGet(session_store[op.inst], BatchKey(2)) = op.block

\* the set-block operations
BlockWrites ==
    {"_set_crypto_block", "_set_crypto_for_object", "_set_crypto_for_objects"}

\* the crypto-block keys built from an unresolved username
UnresolvedKeys(d) ==
    {k \in CryptoKeys(d) :
        StartsWith(k, CRYPTO_PREFIX \o <<"_">> \o Str(None) \o <<"_">>)}

\* a crypto-block read that reaches the cache reads under a resolved username
ReadsUnderResolvedUsername ==
    (/\ op.name \in BlockReads
     /\ ~op.exc
     /\ op.pwreq \/ Falsy(op.pre.st.password))
        => Truthy(settings[op.inst].username)

\* C11 (as claimed): every crypto-block read and every crypto-block write
\* builds its key from a non-empty settings['username'], and no crypto-block
\* entry is ever stored under an unresolved (None or empty) username.
C11_KeysFromResolvedUsername ==
    /\ ReadsUnderResolvedUsername
    /\ op.name \in BlockWrites /\ op.log # <<>> => Truthy(op.pre.st.username)
    /\ \A i \in live : UnresolvedKeys(session_store[i]) = {}
    /\ UnresolvedKeys(session) = {}

\* the settings' username, the local cache and the session are as the call
\* found them
CachesUntouched ==
    /\ settings[op.inst].username = op.pre.st.username
    /\ session_store[op.inst] = op.pre.loc
    /\ session = op.pre.ses

\* C12 (as claimed): when the remote start_session call raises, in whatever
\* operation, the error reaches the caller and the settings' username, the
\* local cache and the external session are exactly as before the operation.
C12_FailedBootstrapLeavesNoTrace ==
    (op.exc /\ op.calls >= 1) => CachesUntouched

\* the same for the operations whose first remote call is the one that raises
FirstCallFailureLeavesNoTrace ==
    (op.exc /\ op.calls = 1) => CachesUntouched

\* the calls of the key-value store adapter
AdapterOps == {"_store_data", "_retrieve_data", "_clear_crypto_blocks"}

\* a _store_data on a session that raises: the error reaches the caller and
\* the local cache holds the written value
FailedStoreKeepsLocal ==
    (op.name = "_store_data" /\ attached[op.inst] /\ broken)
        => /\ op.exc
           /\ op.arg \in DOMAIN session_store[op.inst]
           /\ session_store[op.inst][op.arg] = op.block

C14_NoRaiseAfterFirstFailure ==
    (op.name \in AdapterOps /\ op.exc) => failures = 1

\* C20: with a working session and one instance that started with an empty
\* local cache, every key of the local cache is in the session with the same
\* value, and _retrieve_data returns the local value of a key of the local
\* cache and the session's value (None if it has none) of any other key.
C20_LocalMirroredInSession ==
    ~broken =>
        /\ \A k \in DOMAIN session_store[1] :
              k \in DOMAIN session /\ session[k] = session_store[1][k]
        /\ op.name = "_retrieve_data" =>
              /\ ~op.exc
              /\ op.ret = IF op.arg \in DOMAIN op.pre.loc
                          THEN op.pre.loc[op.arg]
                          ELSE DictGet(op.pre.ses, op.arg)

\* a key that only the session holds is read while the local cache holds
\* another key
C20_Witness ==
    /\ ~broken
    /\ op.name = "_retrieve_data"
    /\ op.arg \notin DOMAIN op.pre.loc
    /\ op.arg \in DOMAIN op.pre.ses
    /\ DOMAIN op.pre.loc # {}
    /\ op.ret = op.pre.ses[op.arg]

\* the blocks that any instance stored for the (username, method) of the
\* get_crypto_block in progress
WrittenForKey ==
    {b \in DOMAIN op.pre.born :
        LET h == op.pre.born[b]
        IN  /\ h.via = "method"
            /\ h.method = op.method
            /\ h.ident[1] = op.pre.st.username}

\* those of them that the reading instance stored itself
WrittenHere == {b \in WrittenForKey : op.pre.born[b].by = op.inst}

\* a get_crypto_block for a (username, method) that has been written, by an
\* instance on the shared session
SharedRead ==
    /\ op.name = "get_crypto_block"
    /\ Truthy(op.pre.st.username)
    /\ attached[op.inst]
    /\ WrittenForKey # {}

\* the shared session holds the block written last for the key
SessionHoldsLastWrite ==
    DictGet(op.pre.ses, _get_crypto_session_key(op.pre.st.username, op.method))
        = LastStored(WrittenForKey)

\* C15 (as claimed): when instances sharing a session write a crypto block for
\* the same (username, method), the session ends holding the block written
\* last and a later get_crypto_block on either instance returns that block.
C15_EveryInstanceReadsLastWrite ==
    SharedRead
        => /\ SessionHoldsLastWrite
           /\ op.ret = LastStored(WrittenForKey)

\* C15 (amended): the session ends holding the block written last; a later
\* get_crypto_block returns the block the reading instance wrote last itself,
\* from its local cache, and the block written last over all instances only
\* when the reading instance has written none for that key.
C15_LocalWriteShadowsLastWrite ==
    SharedRead
        => /\ SessionHoldsLastWrite
           /\ op.ret = IF WrittenHere # {} THEN LastStored(WrittenHere)
                       ELSE LastStored(WrittenForKey)
           /\ op.calls = 0

\* both instances have written the key; the one that wrote first reads
C15_Witness ==
    /\ SharedRead
    /\ WrittenHere # {}
    /\ LastStored(WrittenHere) # LastStored(WrittenForKey)
    /\ op.ret = LastStored(WrittenHere)

\* C16: a cached-username key, a running-user key and a crypto-block key
\* (with or without an object) are pairwise different strings, whatever the
\* remote_ip, remote_site, username, method name and object they are built
\* from; only the crypto-block keys start with CRYPTO_PREFIX.
C16_KeyKindsDoNotCollide ==
    op.name = "cache_keys"
        => /\ op.ret.username # op.ret.running_user
           /\ op.ret.username # op.ret.crypto
           /\ op.ret.username # op.ret.object
           /\ op.ret.running_user # op.ret.crypto
           /\ op.ret.running_user # op.ret.object
           /\ ~StartsWith(op.ret.username, CRYPTO_PREFIX)
           /\ ~StartsWith(op.ret.running_user, CRYPTO_PREFIX)
           /\ StartsWith(op.ret.crypto, CRYPTO_PREFIX)
           /\ StartsWith(op.ret.object, CRYPTO_PREFIX)

\* keys of the three kinds built from values that agree as far as they can:
\* the username is the text of remote_ip, an underscore and remote_site
C16_Witness ==
    /\ op.name = "cache_keys"
    /\ op.arg[1] # None /\ op.arg[2] # None
    /\ op.arg[3] = op.arg[1] \o <<"_">> \o op.arg[2]
    /\ op.arg[4] = op.arg[3]
    /\ op.ret.username = USERNAME_PREFIX \o <<"_">> \o op.arg[3]
    /\ op.ret.running_user = RUNNING_USER_PREFIX \o <<"_">> \o op.arg[3]

\* the username that was cached for the instance's (remote_ip, remote_site)
\* when the call started (None if there was none)
CachedUsernameBefore ==
    LET key == _get_username_session_key(op.pre.st.remote_ip,
                                         op.pre.st.remote_site)
        data == DictGet(op.pre.loc, key)
    IN  IF Falsy(data) /\ attached[op.inst] THEN DictGet(op.pre.ses, key)
        ELSE data

\* C17 (as claimed): a get_username that completes returns a non-empty
\* username: the configured one, else the one cached for (remote_ip,
\* remote_site), returned without a remote call, else the one a successful
\* bootstrap yields.
C17_GetUsernameNeverEmpty ==
    (op.name = "get_username" /\ ~op.exc)
        => /\ Truthy(op.ret)
           /\ Truthy(op.pre.st.username)
                 => op.ret = op.pre.st.username /\ op.calls = 0
           /\ Falsy(op.pre.st.username) /\ Truthy(CachedUsernameBefore)
                 => op.ret = CachedUsernameBefore /\ op.calls = 0
           /\ Falsy(op.pre.st.username) /\ Falsy(CachedUsernameBefore)
                 => op.ret = core_api[op.inst].username /\ op.calls = 1

\* get_username with a configured username, or without a cached one
GetUsernameOutsideCache ==
    (/\ op.name = "get_username" /\ ~op.exc
     /\ Truthy(op.pre.st.username) \/ Falsy(CachedUsernameBefore))
        => /\ Truthy(op.ret)
           /\ op.ret = settings[op.inst].username

\* bit i (0 = least significant) of n is set
BitSet(n, i) == (n \div (2 ^ i)) % 2 = 1

\* item i (0-based) of the result is true exactly when bit i of the mask is set
ItemsAreBits ==
    \A i \in 0..(Len(op.ret) - 1) : op.ret[i + 1] = BitSet(op.arg, i)

\* C18 (as claimed): for every non-negative day mask the result is a list of
\* exactly 7 booleans, item i (0-based) true exactly when bit i is set.
C18_AlwaysSevenBooleans ==
    op.name = "day_mask_to_bool_list"
        => Len(op.ret) = 7 /\ ItemsAreBits

\* C18 (amended): for a day mask from 0 to 127 the result is a list of exactly
\* 7 booleans, item i (0-based) true exactly when bit i is set; for a larger
\* mask the list has one item for every binary digit of the mask (more than
\* 7), item i still being bit i.
C18_SevenBooleansUpTo127 ==
    op.name = "day_mask_to_bool_list"
        => /\ ItemsAreBits
           /\ op.ret \in Seq(BOOLEAN)
           /\ IF op.arg <= 127 THEN Len(op.ret) = 7
              ELSE Len(op.ret) = Len(Binary(op.arg)) /\ Len(op.ret) > 7

\* the mask of the first, third, fifth and seventh day
C18_Witness ==
    /\ op.name = "day_mask_to_bool_list"
    /\ op.arg = 85
    /\ op.ret = <<TRUE, FALSE, TRUE, FALSE, TRUE, FALSE, TRUE>>

\* the value the instance's cache holds under a key: in the local cache and,
\* with a session attached, in the session as well
Holds(i, key, data) ==
    /\ DictGet(session_store[i], key) = data
    /\ attached[i] => DictGet(session, key) = data

\* the crypto blocks that the operation itself stored
NewBlocks == DOMAIN born \ DOMAIN op.pre.born

\* an operation that started a session successfully and was given a username
\* other than the one in the settings (or found none there)
BootstrappedAs(u) ==
    /\ op.name \in {"get_username", "_get_running_user", "get_crypto_block",
                    "_get_crypto_block_for_object"}
    /\ op.calls >= 1
    /\ ~op.exc
    /\ u = core_api[op.inst].username
    /\ u # op.pre.st.username

\* C19: after a successful _start_session that returned a username u other
\* than the one known before, the settings hold u, the cache holds u under the
\* username key of (remote_ip, remote_site) and the core API's running user
\* under the running-user key of u, and a crypto block that the call yielded
\* is held under the crypto key of (u, 'start_session'), not under the key of
\* the old username.
C19_BootstrapPopulatesCaches ==
    \A u \in Usernames :
        BootstrappedAs(u)
            => LET i == op.inst
                   st == settings[i]
               IN  /\ st.username = u
                   /\ Holds(i, _get_username_session_key(st.remote_ip,
                                                         st.remote_site), u)
                   /\ Holds(i, _get_running_user_session_key(u),
                            core_api[i].running_user)
                   /\ Truthy(core_api[i].running_user)
                   /\ \A b \in NewBlocks :
                         /\ Holds(i, _get_crypto_session_key(u, START_SESSION), b)
                         /\ ~Holds(i, _get_crypto_session_key(
                                          op.pre.st.username, START_SESSION), b)

\* a bootstrap that replaces the configured username u1 by u2 and yields a
\* crypto block
C19_Witness ==
    /\ BootstrappedAs(<<"u2">>)
    /\ op.pre.st.username = <<"u1">>
    /\ NewBlocks # {}
    /\ attached[op.inst]
    /\ \A b \in NewBlocks :
          Holds(op.inst, _get_crypto_session_key(<<"u2">>, START_SESSION), b)

\* the key of the crypto-block read in progress, built from the username the
\* call found in the settings
ReadKey ==
    IF op.name = "get_crypto_block"
    THEN _get_crypto_session_key(op.pre.st.username, op.method)
    ELSE _get_crypto_object_key(op.pre.st.username, op.method, op.objs[1])

\* a crypto-block read on a resolved username for which neither the local
\* cache nor the attached session holds an entry; for get_crypto_block the
\* method is not 'start_session'
CacheMiss ==
    /\ op.name \in BlockReads
    /\ Truthy(op.pre.st.username)
    /\ op.name = "get_crypto_block" => op.method # START_SESSION
    /\ Falsy(DictGet(op.pre.loc, ReadKey))
    /\ attached[op.inst] => Falsy(DictGet(op.pre.ses, ReadKey))

\* C21: a cache miss is not an error.  On an instance with a resolved
\* username, get_crypto_block(m) for m other than 'start_session' and
\* _get_crypto_block_for_object(m, obj), with no cached entry, return None
\* without raising, without a remote call and without changing the settings,
\* the local cache or the session.
C21_CacheMissIsSilent ==
    CacheMiss
        => /\ op.ret = None
           /\ ~op.exc
           /\ op.calls = 0
           /\ op.log = <<>>
           /\ settings[op.inst] = op.pre.st
           /\ session_store[op.inst] = op.pre.loc
           /\ session = op.pre.ses

\* a miss of get_crypto_block while the cache and the session hold a block
\* under another key
C21_Witness ==
    /\ CacheMiss
    /\ op.name = "get_crypto_block" /\ op.pwreq
    /\ attached[op.inst]
    /\ CryptoKeys(op.pre.loc) # {} /\ CryptoKeys(op.pre.ses) # {}
    /\ op.ret = None

\* a miss of _get_crypto_block_for_object for 'start_session' while a block is
\* cached for another object
C21_WitnessObject ==
    /\ CacheMiss
    /\ op.name = "_get_crypto_block_for_object"
    /\ op.method = START_SESSION
    /\ CryptoKeys(op.pre.loc) # {}
    /\ op.ret = None

\* the number of events e in the log of the call
Count(e) == Cardinality({x \in 1..Len(op.log) : op.log[x].e = e})

\* a _clear_crypto_blocks that ran to its end
Cleared == op.name = "_clear_crypto_blocks" /\ ~op.exc

\* C22: _clear_crypto_blocks removes every local-cache entry whose key starts
\* with CRYPTO_BLOCK and no other; on a session that offers flush_crypto_blocks
\* it calls it exactly once and deletes no session key itself, on any other
\* session it deletes every session key that starts with CRYPTO_BLOCK; after
\* it no CRYPTO_BLOCK key remains in the local cache or the session.
C22_ClearRemovesEveryCryptoKey ==
    Cleared
        => /\ session_store[op.inst] = DictDel(op.pre.loc, CryptoKeys(op.pre.loc))
           /\ CryptoKeys(session_store[op.inst]) = {}
           /\ attached[op.inst] /\ caps.flush
                 => Count("flush") = 1 /\ Count("clear_session") = 0
           /\ attached[op.inst] /\ ~caps.flush
                 => /\ Count("flush") = 0
                    /\ session = DictDel(op.pre.ses, CryptoKeys(op.pre.ses))
           /\ ~attached[op.inst] => session = op.pre.ses
           /\ attached[op.inst] => CryptoKeys(session) = {}

\* a clear on a session with flush_crypto_blocks that found two crypto blocks
\* in the local cache and in the session
C22_Witness ==
    /\ Cleared
    /\ attached[op.inst] /\ caps.flush
    /\ Cardinality(CryptoKeys(op.pre.loc)) = 2
    /\ Cardinality(CryptoKeys(op.pre.ses)) = 2
    /\ NoCryptoBlocks(op.inst)

\* the same on a session without flush_crypto_blocks
C22_WitnessEnumerate ==
    /\ Cleared
    /\ attached[op.inst] /\ ~caps.flush
    /\ Cardinality(CryptoKeys(op.pre.loc)) = 2
    /\ Cardinality(CryptoKeys(op.pre.ses)) = 2
    /\ NoCryptoBlocks(op.inst)

\* a _configure (from __init__ or on its own) that was given a username
ExplicitConfigure ==
    /\ op.name \in {"__init__", "_configure"}
    /\ Truthy(op.cfg.username)

\* the username the cache held for (remote_ip, remote_site) when the call
\* started, as instance op.inst would have read it
CachedFor(remote_ip, remote_site) ==
    LET key == _get_username_session_key(remote_ip, remote_site)
        data == DictGet(op.pre.loc, key)
    IN  IF Falsy(data) /\ attached[op.inst] THEN DictGet(op.pre.ses, key)
        ELSE data

\* C23: a _configure given an explicit non-empty username u makes no
\* cached-username lookup and leaves settings['username'] = u (and a core API
\* for u), whatever username is cached for the given (remote_ip, remote_site);
\* and get_username on an instance whose settings hold a username u, as they
\* do after such a _configure, returns u without a remote call.
C23_ExplicitUsernameWins ==
    /\ ExplicitConfigure
          => /\ ~op.exc
             /\ Count("lookup") = 0
             /\ settings[op.inst].username = op.cfg.username
             /\ core_api[op.inst].username = op.cfg.username
    /\ (op.name = "get_username" /\ Truthy(op.pre.st.username))
          => /\ ~op.exc
             /\ op.ret = op.pre.st.username
             /\ op.calls = 0
             /\ settings[op.inst] = op.pre.st

\* a _configure with username u1 while another username is cached for the
\* (remote_ip, remote_site) it is given
C23_WitnessConfigure ==
    /\ ExplicitConfigure
    /\ op.name = "_configure"
    /\ Truthy(CachedFor(op.cfg.remote_ip, op.cfg.remote_site))
    /\ CachedFor(op.cfg.remote_ip, op.cfg.remote_site) # op.cfg.username
    /\ settings[op.inst].username = op.cfg.username

\* the get_username after it: it returns the configured username although
\* another one is cached for the instance's (remote_ip, remote_site)
C23_Witness ==
    /\ op.name = "get_username"
    /\ Truthy(op.pre.st.username)
    /\ Truthy(CachedFor(op.pre.st.remote_ip, op.pre.st.remote_site))
    /\ CachedFor(op.pre.st.remote_ip, op.pre.st.remote_site) # op.pre.st.username
    /\ op.ret = op.pre.st.username
    /\ op.calls = 0

\* the operations that resolve an identity or read a crypto block
Resolvers == {"get_username", "get_crypto_block", "_get_crypto_block_for_object"}

\* one of them, called on an instance that has started a session and has not
\* been reconfigured since
AfterBootstrap ==
    /\ op.name \in Resolvers
    /\ op.inst \in op.pre.booted

\* get_crypto_block('start_session') that passes the password gate and finds
\* no block stored for 'start_session' under the instance's username
StartSessionMiss ==
    /\ op.name = "get_crypto_block"
    /\ op.method = START_SESSION
    /\ op.pwreq \/ Falsy(op.pre.st.password)
    /\ StoredUnderKey = {}

\* C24 (as claimed): once a bootstrap has succeeded on an instance, no later
\* get_username, get_crypto_block (for any method, 'start_session' included)
\* or _get_crypto_block_for_object on it makes a bootstrap remote call, as long
\* as it is not reconfigured, whether or not the bootstrap yielded a block.
C24_NoBootstrapAfterBootstrap ==
    AfterBootstrap => op.calls = 0

\* C24 (amended): once a bootstrap has succeeded on an instance and as long as
\* it is not reconfigured, get_username, get_crypto_block for a method other
\* than 'start_session' and _get_crypto_block_for_object make no bootstrap
\* remote call; get_crypto_block('start_session') makes none if a block is
\* stored for 'start_session' (the bootstrap yielded one, or one was set
\* since), and otherwise makes exactly one, on every such call.
C24_OnlyStartSessionMissBootstrapsAgain ==
    AfterBootstrap
        => /\ Truthy(op.pre.st.username)
           /\ op.calls = IF StartSessionMiss THEN 1 ELSE 0

\* the bootstrap yielded no block, and get_crypto_block('start_session')
\* starts another session
C24_Witness ==
    /\ AfterBootstrap
    /\ StartSessionMiss
    /\ op.pre.born = EmptyDict
    /\ op.calls = 1

\* the bootstrap yielded a block, and get_crypto_block('start_session')
\* returns it without a remote call
C24_WitnessCached ==
    /\ AfterBootstrap
    /\ op.name = "get_crypto_block" /\ op.method = START_SESSION
    /\ op.ret \in StoredUnderKey
    /\ op.calls = 0

\* the cached-username and running-user entries of a store
IdentityEntries(d) ==
    {<<k, d[k]>> : k \in {x \in DOMAIN d :
        StartsWith(x, USERNAME_PREFIX) \/ StartsWith(x, RUNNING_USER_PREFIX)}}

\* a _clear_crypto_blocks that did not hand the session to flush_crypto_blocks
ClearedByEnumeration == Cleared /\ ~(attached[op.inst] /\ caps.flush)

\* C25: _clear_crypto_blocks, on the enumerate-and-delete path, leaves every
\* cached-username entry and every running-user entry of the local cache and
\* of the session as it was, and leaves the settings as they were.
C25_ClearKeepsIdentityEntries ==
    ClearedByEnumeration
        => /\ IdentityEntries(session_store[op.inst]) = IdentityEntries(op.pre.loc)
           /\ IdentityEntries(session) = IdentityEntries(op.pre.ses)
           /\ settings[op.inst] = op.pre.st
           /\ core_api[op.inst] = op.pre.api

\* such a clear that found crypto blocks, a cached username and a running user
\* in the local cache and in the session, and removed the crypto blocks
C25_Witness ==
    /\ ClearedByEnumeration
    /\ attached[op.inst]
    /\ CryptoKeys(op.pre.loc) # {} /\ CryptoKeys(op.pre.ses) # {}
    /\ Cardinality(IdentityEntries(op.pre.loc)) = 2
    /\ Cardinality(IdentityEntries(op.pre.ses)) = 2
    /\ NoCryptoBlocks(op.inst)
    /\ Cardinality(IdentityEntries(session)) = 2

\* self as the call in progress found it, and as it left it
PreWorld ==
    [World(op.inst, <<>>) EXCEPT !.st = op.pre.st, !.api = op.pre.api,
                                 !.loc = op.pre.loc, !.ses = op.pre.ses]

PostWorld == World(op.inst, <<>>)

\* a _configure that leaves the identity (resolved username, remote_ip,
\* remote_site) of an instance with a resolved username as it was
SameIdentityConfigure ==
    /\ op.name = "_configure"
    /\ Truthy(op.pre.st.username)
    /\ Identity(settings[op.inst]) = Identity(op.pre.st)

\* the crypto block the instance's cache held for (m, k) under its username
\* when the call started; k = None for the block of the method itself
CachedBefore(m, k) ==
    _retrieve_data(PreWorld,
        IF k = None THEN _get_crypto_session_key(op.pre.st.username, m)
        ELSE _get_crypto_object_key(op.pre.st.username, m, k))

\* what the get for (m, k) returns after the call
GetAfter(m, k, password_required) ==
    IF k = None THEN get_crypto_block(PostWorld, m, password_required).rv
    ELSE _get_crypto_block_for_object(PostWorld, m, k).rv

\* get_crypto_block(m, password_required) would pass its password gate
GateOpen(st, k, password_required) ==
    k # None \/ password_required \/ Falsy(st.password)

\* the _configure purged nothing
NothingPurged ==
    /\ ~op.exc
    /\ Count("clear_local") = 0 /\ Count("clear_session") = 0
    /\ Count("flush") = 0
    /\ session_store[op.inst] = op.pre.loc
    /\ session = op.pre.ses

\* C26 (as claimed): a _configure with an identity equal to the current one
\* purges nothing, and every crypto block cached before it is still returned
\* by the corresponding get afterwards.
C26_SameIdentityKeepsEveryGet ==
    SameIdentityConfigure
        => /\ NothingPurged
           /\ \A m \in Methods, k \in Opt(ObjKeys), p \in BOOLEAN :
                 (Truthy(CachedBefore(m, k)) /\ GateOpen(op.pre.st, k, p))
                     => GetAfter(m, k, p) = CachedBefore(m, k)

\* C26 (amended): a _configure with an identity equal to the current one
\* purges nothing; every crypto block cached before it is still returned by
\* _get_crypto_block_for_object and by get_crypto_block with
\* password_required true, and by get_crypto_block with password_required
\* false exactly when the new settings hold no password (with a password that
\* get returns None, the block staying in the cache).
C26_SameIdentityPurgesNothing ==
    SameIdentityConfigure
        => /\ NothingPurged
           /\ \A m \in Methods, k \in Opt(ObjKeys), p \in BOOLEAN :
                 Truthy(CachedBefore(m, k))
                     => GetAfter(m, k, p) =
                            IF GateOpen(settings[op.inst], k, p)
                            THEN CachedBefore(m, k) ELSE None

\* a _configure without username that resolves the username from the cache to
\* the one the instance has, while a crypto block is cached for a method
C26_Witness ==
    /\ SameIdentityConfigure
    /\ Falsy(op.cfg.username)
    /\ \E m \in Methods :
          /\ Truthy(CachedBefore(m, None))
          /\ GetAfter(m, None, TRUE) = CachedBefore(m, None)

\* a _configure that adds a password to the same identity while a crypto
\* block is cached for an object
C26_WitnessPassword ==
    /\ SameIdentityConfigure
    /\ Falsy(op.pre.st.password) /\ Truthy(settings[op.inst].password)
    /\ \E m \in Methods, k \in ObjKeys :
          /\ Truthy(CachedBefore(m, k))
          /\ GetAfter(m, k, TRUE) = CachedBefore(m, k)

\* the (username, method) and the (username, method, object) of the keys that
\* the call in progress built
KeyPair == <<op.arg[4], op.arg[5]>>
KeyTriple == <<op.arg[4], op.arg[5], op.arg[6]>>

\* C27 (as claimed): two different tuples (username, method) or (username,
\* method, object identity) never produce the same crypto-block key, and a
\* key for an object is never the key of a plain method.
C27_CryptoKeysInjective ==
    (op.name = "cache_keys" /\ Truthy(op.arg[5]) /\ Truthy(op.arg[6]))
        => \A username \in KeyParts, method_name, cache_key \in KeyParts \ {None} :
              /\ _get_crypto_session_key(username, method_name) = op.ret.crypto
                    => <<username, method_name>> = KeyPair
              /\ _get_crypto_object_key(username, method_name, cache_key)
                    = op.ret.object
                    => <<username, method_name, cache_key>> = KeyTriple
              /\ _get_crypto_session_key(username, method_name) # op.ret.object

\* a value that is written without an underscore
NoUnderscore(x) == Len(Str(x)) = 1

\* the same for usernames, method names and object identities that contain no
\* underscore: there the keys are injective
InjectiveWithoutUnderscores ==
    (op.name = "cache_keys" /\ \A x \in 4..6 : NoUnderscore(op.arg[x]))
        => \A username, method_name, cache_key \in
                 {x \in KeyParts : NoUnderscore(x)} :
              /\ _get_crypto_session_key(username, method_name) = op.ret.crypto
                    => <<username, method_name>> = KeyPair
              /\ _get_crypto_object_key(username, method_name, cache_key)
                    = op.ret.object
                    => <<username, method_name, cache_key>> = KeyTriple
              /\ _get_crypto_session_key(username, method_name) # op.ret.object

\* C28: the state produced by __getstate__ has no session, no core API
\* client, settings with every field unset and an empty local cache, whatever
\* the state of the live object; and producing it leaves the live object's
\* session, settings, core API and local cache as they were.
C28_PickledStateIsBlank ==
    op.name = "__getstate__"
        => /\ ~op.exc
           /\ op.ret._session = None
           /\ op.ret._core_api = None
           /\ \A f \in DOMAIN op.ret.settings : op.ret.settings[f] = None
           /\ DOMAIN op.ret.settings = DOMAIN settings[op.inst]
           /\ op.ret._session_store = EmptyDict
           /\ settings[op.inst] = op.pre.st
           /\ core_api[op.inst] = op.pre.api
           /\ session_store[op.inst] = op.pre.loc
           /\ session = op.pre.ses
           /\ op.log = <<>> /\ op.calls = 0

\* __getstate__ of an instance that has a session, a username, a password,
\* a running user and a crypto block in its local cache
C28_Witness ==
    /\ op.name = "__getstate__"
    /\ attached[op.inst]
    /\ Truthy(settings[op.inst].username)
    /\ Truthy(settings[op.inst].password)
    /\ Truthy(core_api[op.inst].running_user)
    /\ CryptoKeys(session_store[op.inst]) # {}
    /\ CryptoKeys(session) # {}
    /\ op.ret._session_store = EmptyDict

\* the blocks that either instance stored under the key of the read in
\* progress: same username, same method, same object (or none)
StoredByEither ==
    {b \in DOMAIN op.pre.born :
        LET h == op.pre.born[b]
        IN  /\ h.method = op.method
            /\ h.ident[1] = op.pre.st.username
            /\ IF op.name = "get_crypto_block" THEN h.via = "method"
               ELSE h.via = "object" /\ op.objs[1] \in h.objs}

\* C29: an instance constructed from another one's _internal_settings() shares
\* its settings, core API client, local cache and session: until one of the
\* two is reconfigured, the attributes of the two are equal after every
\* operation of either, get_username on one returns the username a session
\* started by either has resolved, and a get on one returns the crypto block
\* stored last by either under the same username, method and object, both
\* without a remote call.
C29_CloneSharesState ==
    alias.fresh
        => /\ settings[1] = settings[2]
           /\ core_api[1] = core_api[2]
           /\ session_store[1] = session_store[2]
           /\ attached[1] = attached[2]
           /\ (op.name = "get_username" /\ op.pre.booted # {})
                 => /\ Truthy(op.ret)
                    /\ \A j \in Inst : op.ret = settings[j].username
                    /\ op.calls = 0
           /\ (KeyedRead /\ StoredByEither # {})
                 => /\ op.ret = LastStored(StoredByEither)
                    /\ op.calls = 0
                    /\ ~op.exc

\* without external session, the first instance reads a crypto block that
\* the second one, constructed from it, has stored
C29_Witness ==
    /\ alias.fresh
    /\ ~attached[1]
    /\ KeyedRead /\ op.inst = 1
    /\ op.ret \in StoredByEither
    /\ op.pre.born[op.ret].by = 2

\* without external session, the first instance is asked for the username
\* after the second one has started the session that resolved it
C29_WitnessUsername ==
    /\ alias.fresh
    /\ ~attached[1]
    /\ op.name = "get_username" /\ op.inst = 1
    /\ op.pre.booted = {2}
    /\ Truthy(op.ret)
    /\ op.calls = 0

\* C30: resolve_boolean(boolean_to_yes_no(b)) = b for b in {True, False};
\* resolve_boolean returns True for 'yes' and for nothing else, False for
\* every other non-empty string, and None for an empty string and for None.
C30_YesNoRoundTrip ==
    /\ op.name = "yes_no_round_trip" => op.ret = op.arg
    /\ op.name = "boolean_to_yes_no"
          => op.ret = IF op.arg = PyBool(TRUE) THEN PyStr(<<"yes">>)
                      ELSE PyStr(<<"no">>)
    /\ op.name = "resolve_boolean"
          => /\ op.ret = PyBool(TRUE) <=> op.arg = PyStr(<<"yes">>)
             /\ op.ret = PyNone <=> op.arg \in {PyNone, PyStr(<<>>)}
             /\ op.ret = PyBool(FALSE)
                   <=> /\ op.arg.type = "str"
                       /\ op.arg.text # <<>>
                       /\ op.arg # PyStr(<<"yes">>)

\* the round trip of False: 'no' is a non-empty string other than 'yes'
C30_Witness ==
    /\ op.name = "yes_no_round_trip"
    /\ op.arg = PyBool(FALSE)
    /\ op.ret = PyBool(FALSE)

\* resolve_boolean of an empty string
C30_WitnessEmpty ==
    /\ op.name = "resolve_boolean"
    /\ op.arg = PyStr(<<>>)
    /\ op.ret = PyNone

====
